---------------------------- MODULE Spec2Model ----------------------------
(***************************************************************************)
(* A model of pynucastro/networks/rate_collection.py: the Composition      *)
(* class (mass fractions of the nuclei of a network) and the               *)
(* RateCollection class (construction from rate files, rates and           *)
(* libraries, evaluate_rates, write_network and the topology built by      *)
(* plot).                                                                  *)
(*                                                                         *)
(* Python floats are modelled as exact rationals <<numerator,              *)
(* denominator>> in lowest terms with a positive denominator: sums,        *)
(* products and quotients are the real-number ones, and a division by      *)
(* zero raises ZeroDivisionError as it does for Python floats.  Rounding   *)
(* is not modelled.                                                        *)
(*                                                                         *)
(* A Nucleus is identified by its raw name (Nucleus equality is equality   *)
(* of names); a Rate is identified by its position in the catalogue Rate.  *)
(***************************************************************************)
EXTENDS Integers, Sequences, FiniteSets

VARIABLES
    \* ---- Composition object
    X,              \* self.X: nucleus -> mass fraction
    nuclei0,        \* the nuclei the Composition was constructed with
    X_assigned,     \* self.X on entry to self.normalize() at line 49 of the
                    \* last set_solar_like call (history)
    molar_frac,     \* the mapping returned by the last get_molar call
    comp_call,      \* the last Composition method called, with its arguments
    comp_err,       \* the exception that call raised, or "none"
    ncalls,         \* number of Composition methods called so far
    \* ---- RateCollection constructor arguments (caller's objects)
    rate_files,     \* the rate_files argument
    rates_arg,      \* the rates argument
    libraries0,     \* the libraries argument as the caller passed it
    libraries,      \* the caller's libraries object after the constructor
    \* ---- RateCollection object
    status,         \* "new", "ok", or the exception that ended __init__
    library,        \* self.library
    rates,          \* self.rates
    unique_nuclei,  \* self.unique_nuclei
    nuclei_consumed,\* self.nuclei_consumed
    nuclei_produced,\* self.nuclei_produced
    tabular_rates,  \* self.tabular_rates
    reaclib_rates,  \* self.reaclib_rates
    \* ---- the last method called on the RateCollection and its outcome
    call,           \* the method and its arguments
    err,            \* the exception it raised, or "none"
    rvals,          \* the mapping returned by evaluate_rates
    G,              \* the graph built by plot: nodes and edges
    emitted         \* number of times that call invoked _write_network

compVars == <<X, nuclei0, X_assigned, molar_frac, comp_call, comp_err, ncalls>>
argVars  == <<rate_files, rates_arg, libraries0, libraries>>
rcVars   == <<status, library, rates, unique_nuclei, nuclei_consumed,
              nuclei_produced, tabular_rates, reaclib_rates>>
outVars  == <<call, err, rvals, G, emitted>>
vars     == <<compVars, argVars, rcVars, outVars>>

----------------------------------------------------------------------------
(* Bounds of the model. *)

\* Composition method calls in one behaviour
MaxCalls == 3
\* longest rate_files list
MaxFiles == 1
\* longest rates list
MaxRatesArg == 1
\* longest libraries list
MaxLibs == 2

----------------------------------------------------------------------------
(* Exact rational arithmetic, standing for Python float arithmetic. *)

Abs(i) == IF i < 0 THEN -i ELSE i

RECURSIVE GCD(_, _)
GCD(a, b) == IF b = 0 THEN a ELSE GCD(b, a % b)

Rat(n, d) ==
    LET g == GCD(Abs(n), Abs(d))
        s == IF d < 0 THEN -1 ELSE 1
    IN  <<(s * n) \div g, (s * d) \div g>>

Zero == <<0, 1>>
One  == <<1, 1>>

RatAdd(a, b) == Rat(a[1] * b[2] + b[1] * a[2], a[2] * b[2])
RatSub(a, b) == Rat(a[1] * b[2] - b[1] * a[2], a[2] * b[2])
RatMul(a, b) == Rat(a[1] * b[1], a[2] * b[2])
\* a / b for b # 0 (the callers raise ZeroDivisionError for b = 0)
RatDiv(a, b) == Rat(a[1] * b[2], a[2] * b[1])
RatIsZero(a) == a[1] = 0
RatPos(a)    == a[1] > 0

RECURSIVE RatPow(_, _)
\* a ** e for a natural exponent; a ** 0 is 1, also for a = 0
RatPow(a, e) == IF e = 0 THEN One ELSE RatMul(a, RatPow(a, e - 1))

SeqToSet(s) == {s[i] : i \in 1..Len(s)}

----------------------------------------------------------------------------
(* Nucleus (pynucastro.rates): name, proton number Z, mass number A and    *)
(* the total order on nuclei.                                              *)

AllNuclei == {"n", "p", "d", "he4", "be8", "c12", "c13", "n13", "o16"}

NucleusZ(k) ==
    CASE k = "n" -> 0 [] k = "p" -> 1 [] k = "d" -> 1 [] k = "he4" -> 2
      [] k = "be8" -> 4 [] k = "c12" -> 6 [] k = "c13" -> 6 [] k = "n13" -> 7
      [] k = "o16" -> 8

NucleusA(k) ==
    CASE k = "n" -> 1 [] k = "p" -> 1 [] k = "d" -> 2 [] k = "he4" -> 4
      [] k = "be8" -> 8 [] k = "c12" -> 12 [] k = "c13" -> 13 [] k = "n13" -> 13
      [] k = "o16" -> 16

\* Nucleus.__lt__: by proton number, then by mass number
NucleusLT(a, b) ==
    \/ NucleusZ(a) < NucleusZ(b)
    \/ NucleusZ(a) = NucleusZ(b) /\ NucleusA(a) < NucleusA(b)

----------------------------------------------------------------------------
(* Composition *)

NoX == [k \in {} |-> Zero]

\* Composition.__init__, line 34: every nucleus starts at `small`
CompositionInit(nuclei, small) == [k \in SeqToSet(nuclei) |-> small]

RECURSIVE SumOver(_, _)
\* sum([self.X[k] for k in self.X])
SumOver(XX, S) ==
    IF S = {} THEN Zero
    ELSE LET k == CHOOSE k \in S : TRUE
         IN  RatAdd(XX[k], SumOver(XX, S \ {k}))

X_sum(XX) == SumOver(XX, DOMAIN XX)

\* the loop of normalize, lines 67-68
DivideAll(XX, s) == [k \in DOMAIN XX |-> RatDiv(XX[k], s)]

\* normalize: [X |-> self.X afterwards, err |-> exception raised]
Normalize(XX) ==
    IF RatIsZero(X_sum(XX))
    THEN [X |-> XX, err |-> "ZeroDivisionError"]
    ELSE [X |-> DivideAll(XX, X_sum(XX)), err |-> "none"]

\* mutant: he4 gets 0.3, Z not taken off
SolarAssignNoZ(XX, Z, rem) ==
    [k \in DOMAIN XX |->
        IF k = "p" THEN <<7, 10>> ELSE IF k = "he4" THEN <<3, 10>> ELSE rem]

\* the loop of set_solar_like, lines 41-47, with rem = Z/(num-2)
SolarAssign(XX, Z, rem) ==
    [k \in DOMAIN XX |->
        IF k = "p" THEN <<7, 10>>
        ELSE IF k = "he4" THEN RatSub(<<3, 10>>, Z)
        ELSE rem]

\* the loop of set_all
SetAll(XX, xval) == [k \in DOMAIN XX |-> xval]

\* mutant: self.X[name] = xval, which adds a key for an unknown name
SetNucInsert(XX, name, xval) ==
    [k \in DOMAIN XX \cup {name} |-> IF k = name THEN xval ELSE XX[k]]

\* the loop of set_nuc: the nucleus named `name`, if any, gets xval
SetNuc(XX, name, xval) ==
    [k \in DOMAIN XX |-> IF k = name THEN xval ELSE XX[k]]

\* get_molar, line 72
GetMolar(XX) == [k \in DOMAIN XX |-> RatDiv(XX[k], <<NucleusA(k), 1>>)]

\* inputs of the Composition methods
CompNucleiLists ==
    { <<"p", "he4">>, <<"p", "he4", "c12">>, <<"p", "he4", "c12", "o16">>,
      <<"he4", "c12", "o16">>, <<"c12", "o16", "n13">> }
SmallVals == { <<1, 1000>> }
XVals     == { Zero, <<1, 2>> }
NucNames  == { "p", "c12", "n14" }
ZVals     == { <<1, 50>>, Zero }

CompInit ==
    /\ \E nuclei \in CompNucleiLists, small \in SmallVals :
          /\ X = CompositionInit(nuclei, small)
          /\ nuclei0 = SeqToSet(nuclei)
    /\ X_assigned = NoX
    /\ molar_frac = NoX
    /\ comp_call = [op |-> "__init__", name |-> "", x |-> Zero]
    /\ comp_err = "none"
    /\ ncalls = 0

CompIdle ==
    /\ X = NoX
    /\ nuclei0 = {}
    /\ X_assigned = NoX
    /\ molar_frac = NoX
    /\ comp_call = [op |-> "none", name |-> "", x |-> Zero]
    /\ comp_err = "none"
    /\ ncalls = 0

set_solar_like(Z) ==
    /\ ncalls < MaxCalls
    /\ ncalls' = ncalls + 1
    /\ comp_call' = [op |-> "set_solar_like", name |-> "", x |-> Z]
    /\ IF Cardinality(DOMAIN X) = 2
       THEN \* line 40: Z/(num-2) divides by zero
            /\ comp_err' = "ZeroDivisionError"
            /\ UNCHANGED <<X, X_assigned>>
       ELSE LET rem == RatDiv(Z, <<Cardinality(DOMAIN X) - 2, 1>>)
                asg == SolarAssign(X, Z, rem)
                res == Normalize(asg)
            IN  /\ X_assigned' = asg
                /\ X' = res.X
                /\ comp_err' = res.err
    /\ UNCHANGED <<nuclei0, molar_frac, argVars, rcVars, outVars>>

set_all(xval) ==
    /\ ncalls < MaxCalls
    /\ ncalls' = ncalls + 1
    /\ comp_call' = [op |-> "set_all", name |-> "", x |-> xval]
    /\ X' = SetAll(X, xval)
    /\ comp_err' = "none"
    /\ UNCHANGED <<nuclei0, X_assigned, molar_frac, argVars, rcVars, outVars>>

set_nuc(name, xval) ==
    /\ ncalls < MaxCalls
    /\ ncalls' = ncalls + 1
    /\ comp_call' = [op |-> "set_nuc", name |-> name, x |-> xval]
    /\ X' = SetNuc(X, name, xval)
    /\ comp_err' = "none"
    /\ UNCHANGED <<nuclei0, X_assigned, molar_frac, argVars, rcVars, outVars>>

normalize ==
    /\ ncalls < MaxCalls
    /\ ncalls' = ncalls + 1
    /\ comp_call' = [op |-> "normalize", name |-> "", x |-> Zero]
    /\ X' = Normalize(X).X
    /\ comp_err' = Normalize(X).err
    /\ UNCHANGED <<nuclei0, X_assigned, molar_frac, argVars, rcVars, outVars>>

get_molar ==
    /\ ncalls < MaxCalls
    /\ ncalls' = ncalls + 1
    /\ comp_call' = [op |-> "get_molar", name |-> "", x |-> Zero]
    /\ molar_frac' = GetMolar(X)
    /\ comp_err' = "none"
    /\ UNCHANGED <<X, nuclei0, X_assigned, argVars, rcVars, outVars>>


----------------------------------------------------------------------------
(* Rate and Library (pynucastro.rates).                                    *)
(*                                                                         *)
(* A Reaclib chapter is an integer 1..11, written here as its decimal      *)
(* string; the chapter of a tabulated rate is the string "t".  Any other   *)
(* chapter is of unknown type.                                             *)

IntChapters == {"1", "2", "3", "4", "5", "6", "7", "8", "9", "10", "11"}

\* The rates of the model: Rate[i] is the Rate object with identity i.
\* Rates 2 and 3 are the same reaction from two sources and share an fname.
Rate == <<
    [reactants |-> <<"he4", "he4", "he4">>, products |-> <<"c12">>,
     chapter |-> "8", fname |-> "he4_he4_he4__c12",
     prefactor |-> <<1, 6>>, dens_exp |-> 2],
    [reactants |-> <<"p", "c12">>, products |-> <<"n13">>,
     chapter |-> "4", fname |-> "p_c12__n13",
     prefactor |-> One, dens_exp |-> 1],
    [reactants |-> <<"p", "c12">>, products |-> <<"n13">>,
     chapter |-> "4", fname |-> "p_c12__n13",
     prefactor |-> One, dens_exp |-> 1],
    [reactants |-> <<"n13">>, products |-> <<"c13">>,
     chapter |-> "t", fname |-> "n13__c13",
     prefactor |-> One, dens_exp |-> 0],
    [reactants |-> <<"be8">>, products |-> <<"he4", "he4">>,
     chapter |-> "2", fname |-> "be8__he4_he4",
     prefactor |-> One, dens_exp |-> 0],
    [reactants |-> <<"n", "p">>, products |-> <<"d">>,
     chapter |-> "4", fname |-> "n_p__d",
     prefactor |-> One, dens_exp |-> 1],
    [reactants |-> <<"c13">>, products |-> <<"n13">>,
     chapter |-> "t", fname |-> "c13__n13",
     prefactor |-> One, dens_exp |-> 0],
    [reactants |-> <<"d", "d">>, products |-> <<"he4">>,
     chapter |-> "x", fname |-> "d_d__he4",
     prefactor |-> <<1, 2>>, dens_exp |-> 1] >>

RateIds == 1..Len(Rate)

\* an object that is not a Rate, and one that is not a Library
NotARate    == 0
NotALibrary == <<NotARate>>

\* Rate.eval(T): the temperature-dependent coefficient of the rate
RateEval(r, T) == <<r + T, 1>>

Count(s, x) == Cardinality({i \in 1..Len(s) : s[i] = x})

RECURSIVE Dedup(_)
\* the first occurrence of every element, in order
Dedup(s) ==
    IF s = <<>> THEN <<>>
    ELSE LET d == Dedup(SubSeq(s, 1, Len(s) - 1))
         IN  IF s[Len(s)] \in SeqToSet(d) THEN d ELSE Append(d, s[Len(s)])

\* self.library is None, or a Library holding a sequence of distinct rates
NoLibrary    == [set |-> FALSE, rates |-> <<>>]
MkLibrary(s) == [set |-> TRUE, rates |-> s]

\* Library(rates=rates)
LibraryOfRates(rs) == MkLibrary(Dedup(rs))

\* Library.__add__: the union, the rates of b not yet held appended
LibraryAdd(a, b) == MkLibrary(Dedup(a.rates \o b.rates))

\* Library.get_rates()
get_rates(lib) == lib.rates

\* Library(rf): the library read from a rate file; reading "bad.lib" fails
FileLoads(rf) == rf # "bad.lib"
LibraryOfFile(rf) ==
    CASE rf = "a.lib" -> MkLibrary(<<7, 1>>)
      [] rf = "b.lib" -> MkLibrary(<<6>>)
      [] OTHER -> MkLibrary(<<>>)

----------------------------------------------------------------------------
(* RateCollection.__init__ *)

\* lines 122-125, 137-140, 193-196: the library becomes, or is joined by, lib
Merge(cur, lib) == IF ~cur.set THEN lib ELSE LibraryAdd(cur, lib)

RECURSIVE ReadFrom(_, _, _)
\* _read_rate_files: the loop over self.files from position i
ReadFrom(files, i, cur) ==
    IF i > Len(files) THEN [library |-> cur, err |-> "none"]
    ELSE IF ~FileLoads(files[i]) THEN [library |-> cur, err |-> "IOError"]
    ELSE ReadFrom(files, i + 1, Merge(cur, LibraryOfFile(files[i])))

\* truth value of an argument: None and the empty list are false
Truthy(arg) == arg.kind \in {"str", "one"} \/ (arg.kind = "list" /\ arg.v # <<>>)

\* lines 106-109
AfterFiles(rf) ==
    IF Truthy(rf) THEN ReadFrom(rf.v, 1, NoLibrary)
    ELSE [library |-> NoLibrary, err |-> "none"]

\* lines 111-125
AfterRates(ra, cur) ==
    IF ~Truthy(ra) THEN [library |-> cur, err |-> "none"]
    ELSE IF \E i \in 1..Len(ra.v) : ra.v[i] = NotARate
         THEN [library |-> cur, err |-> "AssertionError"]
         ELSE [library |-> Merge(cur, LibraryOfRates(ra.v)), err |-> "none"]

RECURSIVE AddAll(_, _, _)
\* lines 139-140
AddAll(cur, libs, i) ==
    IF i > Len(libs) THEN cur
    ELSE AddAll(LibraryAdd(cur, MkLibrary(libs[i])), libs, i + 1)

\* mutant: the first library is always taken off the list as the base
PopsAlways(cur) == TRUE

\* line 137: the local list `libraries` loses its first element exactly when
\* self.library is still unset
PopsFirst(cur) == ~cur.set

\* lines 127-140: [library, err, list: the local list `libraries` afterwards]
AfterLibraries(la, cur) ==
    IF ~Truthy(la) THEN [library |-> cur, err |-> "none", list |-> la.v]
    ELSE IF \E i \in 1..Len(la.v) : la.v[i] = NotALibrary
         THEN [library |-> cur, err |-> "AssertionError", list |-> la.v]
         ELSE LET base == IF PopsFirst(cur) THEN MkLibrary(Head(la.v)) ELSE cur
                  rest == IF PopsFirst(cur) THEN Tail(la.v) ELSE la.v
              IN  [library |-> AddAll(base, rest, 1), err |-> "none",
                   list |-> rest]

\* the caller's libraries object after the call: only a list that the
\* caller passed is the list the constructor pops from (a single Library is
\* wrapped in a new list at line 129)
CallerLibraries(la, list) ==
    IF la.kind = "list" THEN [kind |-> "list", v |-> list] ELSE la

RECURSIVE CollectNuclei(_, _, _)
\* lines 146-149
CollectNuclei(rs, i, u) ==
    IF i > Len(rs) THEN u
    ELSE CollectNuclei(rs, i + 1,
            u \cup SeqToSet(Rate[rs[i]].reactants \o Rate[rs[i]].products))

RECURSIVE SortedNuclei(_)
\* sorted(u), by the order of Nucleus
SortedNuclei(S) ==
    IF S = {} THEN <<>>
    ELSE LET m == CHOOSE m \in S : \A o \in S \ {m} : NucleusLT(m, o)
         IN  <<m>> \o SortedNuclei(S \ {m})

RECURSIVE CollectReactants(_, _, _)
CollectReactants(rs, i, u) ==
    IF i > Len(rs) THEN u
    ELSE CollectReactants(rs, i + 1, u \cup SeqToSet(Rate[rs[i]].reactants))

\* mutant: the products are left out of the union
UniqueNucleiReactantsOnly(rs) == SortedNuclei(CollectReactants(rs, 1, {}))

\* line 151
UniqueNuclei(rs) == SortedNuclei(CollectNuclei(rs, 1, {}))

RatesWith(rs, n, side) ==
    LET has(r) == n \in SeqToSet(IF side = "reactants" THEN Rate[r].reactants
                                 ELSE Rate[r].products)
    IN  SelectSeq(rs, has)

RECURSIVE PerOccurrence(_, _, _)
PerOccurrence(rs, i, n) ==
    IF i > Len(rs) THEN <<>>
    ELSE [j \in 1..Count(Rate[rs[i]].reactants, n) |-> rs[i]]
         \o PerOccurrence(rs, i + 1, n)

\* mutant: a rate is listed once for every occurrence of n among its reactants
NucleiConsumedPerOccurrence(rs, un) ==
    [n \in SeqToSet(un) |-> PerOccurrence(rs, 1, n)]

\* line 159
NucleiConsumed(rs, un) == [n \in SeqToSet(un) |-> RatesWith(rs, n, "reactants")]
\* line 160
NucleiProduced(rs, un) == [n \in SeqToSet(un) |-> RatesWith(rs, n, "products")]

\* the sort key of line 169
IsTabular(r) == Rate[r].chapter = "t"

\* mutant: a strict comparison, which makes the sort unstable
KeyLT(a, b) == ~IsTabular(a) /\ IsTabular(b)

\* key(a) <= key(b), with False < True
KeyLE(a, b) == ~IsTabular(a) \/ IsTabular(b)

RECURSIVE InsertStable(_, _)
\* r put behind every element whose key is not greater
InsertStable(s, r) ==
    IF s = <<>> THEN <<r>>
    ELSE IF KeyLE(s[Len(s)], r) THEN Append(s, r)
    ELSE Append(InsertStable(SubSeq(s, 1, Len(s) - 1), r), s[Len(s)])

RECURSIVE SortedByKey(_)
\* sorted(self.rates, key=...), a stable sort
SortedByKey(rs) ==
    IF rs = <<>> THEN <<>>
    ELSE InsertStable(SortedByKey(SubSeq(rs, 1, Len(rs) - 1)), rs[Len(rs)])

RECURSIVE Classify(_, _, _, _)
\* lines 171-181: positions are Python's, counted from 0
Classify(rs, i, tab, rea) ==
    IF i > Len(rs) THEN [tabular |-> tab, reaclib |-> rea, err |-> "none"]
    ELSE IF Rate[rs[i]].chapter = "t"
         THEN Classify(rs, i + 1, Append(tab, i - 1), rea)
    ELSE IF Rate[rs[i]].chapter \in IntChapters
         THEN Classify(rs, i + 1, tab, Append(rea, i - 1))
    ELSE [tabular |-> tab, reaclib |-> rea, err |-> "SystemExit"]

NoIndex == [n \in {} |-> <<>>]

Failed(e, callerLibs) ==
    [status |-> e, libraries |-> callerLibs, library |-> NoLibrary,
     rates |-> <<>>, unique_nuclei |-> <<>>, nuclei_consumed |-> NoIndex,
     nuclei_produced |-> NoIndex, tabular_rates |-> <<>>,
     reaclib_rates |-> <<>>]

\* the whole constructor
Construct(rf, ra, la) ==
    LET f == AfterFiles(rf) IN
    IF f.err # "none" THEN Failed(f.err, la) ELSE
    LET r == AfterRates(ra, f.library) IN
    IF r.err # "none" THEN Failed(r.err, la) ELSE
    LET l == AfterLibraries(la, r.library)
        caller == CallerLibraries(la, l.list)
    IN
    IF l.err # "none" THEN Failed(l.err, la) ELSE
    LET rs0 == IF l.library.set THEN get_rates(l.library) ELSE <<>>
        un  == UniqueNuclei(rs0)
        rs  == SortedByKey(rs0)
        c   == Classify(rs, 1, <<>>, <<>>)
    IN
    IF c.err # "none" THEN Failed(c.err, caller) ELSE
    [status |-> "ok", libraries |-> caller, library |-> l.library,
     rates |-> rs, unique_nuclei |-> un,
     nuclei_consumed |-> NucleiConsumed(rs0, un),
     nuclei_produced |-> NucleiProduced(rs0, un),
     tabular_rates |-> c.tabular, reaclib_rates |-> c.reaclib]

----------------------------------------------------------------------------
(* RateCollection.evaluate_rates *)

NoRvals == [r \in {} |-> Zero]

\* line 209
RateVal(r, rho, T) ==
    RatMul(RatMul(Rate[r].prefactor, RatPow(rho, Rate[r].dens_exp)),
           RateEval(r, T))

RECURSIVE ReduceMul(_, _, _)
\* functools.reduce(mul, l) from position i, acc holding the product so far
ReduceMul(l, i, acc) ==
    IF i > Len(l) THEN acc ELSE ReduceMul(l, i + 1, RatMul(acc, l[i]))

RECURSIVE ProductOver(_, _)
ProductOver(ys, S) ==
    IF S = {} THEN One
    ELSE LET q == CHOOSE q \in S : TRUE
         IN  RatMul(ys[q], ProductOver(ys, S \ {q}))

\* mutant: every reactant nucleus counted once, whatever its multiplicity
YFacDistinct(r, ys) == ProductOver(ys, SeqToSet(Rate[r].reactants))

\* line 210
YFac(r, ys) ==
    LET l == [i \in 1..Len(Rate[r].reactants) |-> ys[Rate[r].reactants[i]]]
    IN  ReduceMul(l, 2, l[1])

\* line 211
RVal(r, rho, T, ys) == RatMul(YFac(r, ys), RateVal(r, rho, T))

\* evaluate_rates: [rvals, err]
EvaluateRates(rs, rho, T, XX) ==
    LET ys == GetMolar(XX) IN
    IF \E i \in 1..Len(rs) : Rate[rs[i]].reactants = <<>>
    THEN [rvals |-> NoRvals, err |-> "TypeError"]
    ELSE IF \E i \in 1..Len(rs) :
               ~(SeqToSet(Rate[rs[i]].reactants) \subseteq DOMAIN ys)
    THEN [rvals |-> NoRvals, err |-> "KeyError"]
    ELSE [rvals |-> [r \in SeqToSet(rs) |-> RVal(r, rho, T, ys)],
          err |-> "none"]

\* the Composition objects passed to evaluate_rates and plot
CompositionPool == <<
    [k \in AllNuclei |-> IF k = "he4" THEN <<1, 4>> ELSE <<1, 2>>],
    [k \in AllNuclei |-> IF k = "he4" THEN Zero ELSE <<1, 2>>],
    [k \in {"p", "c12"} |-> <<1, 2>>] >>
Rhos  == { Zero, <<10, 1>> }
Temps == { 2 }

NoCall == [op |-> "none", supplied |-> {}, rho |-> Zero, T |-> 0, comp |-> 0]
NoG    == [nodes |-> <<>>, edges |-> <<>>]

evaluate_rates(rho, T, comp) ==
    /\ status = "ok"
    /\ call.op = "none"
    /\ LET e == EvaluateRates(rates, rho, T, CompositionPool[comp])
       IN  /\ rvals' = e.rvals
           /\ err' = e.err
    /\ call' = [op |-> "evaluate_rates", supplied |-> {"rho", "T", "comp"},
                rho |-> rho, T |-> T, comp |-> comp]
    /\ G' = NoG
    /\ UNCHANGED <<emitted, rcVars, argVars, compVars>>

----------------------------------------------------------------------------
(* RateCollection.write_network *)

RECURSIVE Fnames(_)
\* line 240
Fnames(rs) ==
    IF rs = <<>> THEN <<>>
    ELSE Append(Fnames(SubSeq(rs, 1, Len(rs) - 1)), Rate[rs[Len(rs)]].fname)

\* mutant: <= for ==, which no collection fails
DistinguishableRatesLE(rs) == Cardinality(SeqToSet(Fnames(rs))) <= Len(rs)

\* _distinguishable_rates, line 241
DistinguishableRates(rs) == Cardinality(SeqToSet(Fnames(rs))) = Len(rs)

write_network ==
    /\ status = "ok"
    /\ call.op = "none"
    /\ IF DistinguishableRates(rates)
       THEN /\ emitted' = 1
            /\ err' = "none"
       ELSE /\ emitted' = 0
            /\ err' = "AssertionError"
    /\ call' = [NoCall EXCEPT !.op = "write_network"]
    /\ rvals' = NoRvals
    /\ G' = NoG
    /\ UNCHANGED <<rcVars, argVars, compVars>>

----------------------------------------------------------------------------
(* RateCollection.plot: the graph G built by lines 252-305 *)

\* rate_weight = -308, line 302
MinExponent == -308

ConstWeight(v) == [kind |-> "const", val |-> v]
\* the base-10 logarithm of x, x > 0, kept symbolic
Log10Of(x)     == [kind |-> "log10", val |-> x]

\* mutant: count(n) > 0 for count(n) > 1
IsNodeAnyReactant(n, rs) ==
    \/ n \notin {"p", "n", "he4"}
    \/ \E i \in 1..Len(rs) : Count(Rate[rs[i]].reactants, n) > 0

\* lines 261-268
IsNode(n, rs) ==
    \/ n \notin {"p", "n", "he4"}
    \/ \E i \in 1..Len(rs) : Count(Rate[rs[i]].reactants, n) > 1

NodeNuclei(un, rs) == LET keep(n) == IsNode(n, rs) IN SelectSeq(un, keep)

\* mutant: the ValueError of math.log10 is not turned into the weight -308
EdgeWeightNoSentinel(ydots, has_ydots, r) ==
    IF ~has_ydots THEN ConstWeight(<<1, 2>>) ELSE Log10Of(ydots[r])

\* lines 293-305: math.log10 raises ValueError unless its argument is > 0
EdgeWeight(ydots, has_ydots, r) ==
    IF ~has_ydots THEN ConstWeight(<<1, 2>>)
    ELSE IF RatPos(ydots[r]) THEN Log10Of(ydots[r])
    ELSE ConstWeight(<<MinExponent, 1>>)

\* G.add_edges_from([(n, p)], weight=w); `rate` records the rate the edge
\* was added for
Edge(n, p, w, r) == [u |-> n, v |-> p, weight |-> w, rate |-> r]

RECURSIVE EdgesOfProducts(_, _, _, _, _, _)
\* lines 286-305
EdgesOfProducts(n, r, j, nodes, ydots, has_ydots) ==
    IF j > Len(Rate[r].products) THEN <<>>
    ELSE (IF Rate[r].products[j] \in SeqToSet(nodes)
          THEN <<Edge(n, Rate[r].products[j],
                      EdgeWeight(ydots, has_ydots, r), r)>>
          ELSE <<>>)
         \o EdgesOfProducts(n, r, j + 1, nodes, ydots, has_ydots)

RECURSIVE EdgesOfRates(_, _, _, _, _, _)
\* line 285
EdgesOfRates(n, rs, i, nodes, ydots, has_ydots) ==
    IF i > Len(rs) THEN <<>>
    ELSE EdgesOfProducts(n, rs[i], 1, nodes, ydots, has_ydots)
         \o EdgesOfRates(n, rs, i + 1, nodes, ydots, has_ydots)

RECURSIVE EdgesOfNodes(_, _, _, _, _)
\* line 284
EdgesOfNodes(nodes, k, consumed, ydots, has_ydots) ==
    IF k > Len(nodes) THEN <<>>
    ELSE EdgesOfRates(nodes[k], consumed[nodes[k]], 1, nodes, ydots, has_ydots)
         \o EdgesOfNodes(nodes, k + 1, consumed, ydots, has_ydots)

\* line 275: ydots is evaluated only when rho, T and comp are all given
AllSupplied(supplied) == supplied = {"rho", "T", "comp"}

plot(supplied, rho, T, comp) ==
    /\ status = "ok"
    /\ call.op = "none"
    /\ call' = [op |-> "plot", supplied |-> supplied,
                rho |-> rho, T |-> T, comp |-> comp]
    /\ LET nodes == NodeNuclei(unique_nuclei, rates)
           e == IF AllSupplied(supplied)
                THEN EvaluateRates(rates, rho, T, CompositionPool[comp])
                ELSE [rvals |-> NoRvals, err |-> "none"]
           edges == EdgesOfNodes(nodes, 1, nuclei_consumed, e.rvals,
                                 AllSupplied(supplied))
       IN  IF e.err # "none"
           THEN \* evaluate_rates raised at line 276
                /\ G' = [nodes |-> nodes, edges |-> <<>>]
                /\ err' = e.err
           ELSE /\ G' = [nodes |-> nodes, edges |-> edges]
                \* line 315: zip(*{}.items()) cannot be unpacked
                /\ err' = IF edges = <<>> THEN "ValueError" ELSE "none"
    /\ rvals' = NoRvals
    /\ UNCHANGED <<emitted, rcVars, argVars, compVars>>

----------------------------------------------------------------------------
(* The constructor's arguments and the specifications *)

RECURSIVE SeqsUpTo(_, _)
\* the sequences over S of length at most n
SeqsUpTo(S, n) ==
    IF n = 0 THEN {<<>>}
    ELSE LET shorter == SeqsUpTo(S, n - 1)
         IN  shorter \cup {Append(s, x) : s \in shorter, x \in S}

None == [kind |-> "none", v |-> <<>>]

FileNames == {"a.lib", "bad.lib"}
RateFilesArgs ==
    {None, [kind |-> "str", v |-> <<"a.lib">>]}
    \cup {[kind |-> "list", v |-> s] : s \in SeqsUpTo(FileNames, MaxFiles)}

RatesArgs ==
    {None, [kind |-> "one", v |-> <<5>>]}
    \cup {[kind |-> "list", v |-> s] : s \in SeqsUpTo({5, 8, NotARate}, MaxRatesArg)}

LibraryPool == { <<4, 2, 1>>, <<3, 4, 5, 6>>, NotALibrary }
LibrariesArgs ==
    {None, [kind |-> "one", v |-> << <<4, 2, 1>> >>]}
    \cup {[kind |-> "list", v |-> s] : s \in SeqsUpTo(LibraryPool, MaxLibs)}

RCNew ==
    /\ status = "new"
    /\ library = NoLibrary
    /\ rates = <<>>
    /\ unique_nuclei = <<>>
    /\ nuclei_consumed = NoIndex
    /\ nuclei_produced = NoIndex
    /\ tabular_rates = <<>>
    /\ reaclib_rates = <<>>
    /\ call = NoCall
    /\ err = "none"
    /\ rvals = NoRvals
    /\ G = NoG
    /\ emitted = 0

Init ==
    /\ rate_files \in RateFilesArgs
    /\ rates_arg \in RatesArgs
    /\ libraries0 \in LibrariesArgs
    /\ libraries = libraries0
    /\ RCNew
    /\ CompIdle

__init__ ==
    /\ status = "new"
    /\ LET c == Construct(rate_files, rates_arg, libraries0)
       IN  /\ status' = c.status
           /\ libraries' = c.libraries
           /\ library' = c.library
           /\ rates' = c.rates
           /\ unique_nuclei' = c.unique_nuclei
           /\ nuclei_consumed' = c.nuclei_consumed
           /\ nuclei_produced' = c.nuclei_produced
           /\ tabular_rates' = c.tabular_rates
           /\ reaclib_rates' = c.reaclib_rates
    /\ UNCHANGED <<rate_files, rates_arg, libraries0, outVars, compVars>>

\* the caller is done with the outcome of the last call and may call again
Return ==
    /\ call.op # "none"
    /\ call' = NoCall
    /\ err' = "none"
    /\ rvals' = NoRvals
    /\ G' = NoG
    /\ emitted' = 0
    /\ UNCHANGED <<rcVars, argVars, compVars>>

Next ==
    \/ __init__
    \/ Return
    \/ \E rho \in Rhos, T \in Temps, comp \in 1..Len(CompositionPool) :
          evaluate_rates(rho, T, comp)
    \/ write_network
    \/ plot({}, Zero, 0, 0)
    \/ \E rho \in Rhos, T \in Temps : plot({"rho", "T"}, rho, T, 0)
    \/ \E rho \in Rhos, T \in Temps, comp \in 1..Len(CompositionPool) :
          plot({"rho", "T", "comp"}, rho, T, comp)

Spec == Init /\ [][Next]_vars

\* the Composition alone
CompOnlyInit ==
    /\ CompInit
    /\ rate_files = None
    /\ rates_arg = None
    /\ libraries0 = None
    /\ libraries = None
    /\ RCNew

CompNext ==
    \/ \E Z \in ZVals : set_solar_like(Z)
    \/ \E xval \in XVals : set_all(xval)
    \/ \E name \in NucNames, xval \in XVals : set_nuc(name, xval)
    \/ normalize
    \/ get_molar

SpecComposition == CompOnlyInit /\ [][CompNext]_vars

----------------------------------------------------------------------------
(* Properties *)

Occurs(n, s) == \E i \in 1..Len(s) : s[i] = n
HeldRates == SeqToSet(rates)
Ascending(s) == \A i, j \in 1..Len(s) : i < j => s[i] < s[j]

\* C1: in a constructed RateCollection the key set of nuclei_consumed and of
\* nuclei_produced is unique_nuclei, and for every nucleus n of unique_nuclei
\* and every held rate r: r is listed in nuclei_consumed[n] iff n occurs in
\* r.reactants, r is listed in nuclei_produced[n] iff n occurs in r.products,
\* and r is listed at most once for n; only held rates are listed.
C1_IndexComplete ==
    status = "ok" =>
        /\ DOMAIN nuclei_consumed = SeqToSet(unique_nuclei)
        /\ DOMAIN nuclei_produced = SeqToSet(unique_nuclei)
        /\ \A n \in SeqToSet(unique_nuclei) :
              /\ SeqToSet(nuclei_consumed[n]) \subseteq HeldRates
              /\ SeqToSet(nuclei_produced[n]) \subseteq HeldRates
              /\ \A r \in HeldRates :
                    /\ Occurs(r, nuclei_consumed[n]) <=> Occurs(n, Rate[r].reactants)
                    /\ Occurs(r, nuclei_produced[n]) <=> Occurs(n, Rate[r].products)
                    /\ Count(nuclei_consumed[n], r) <= 1
                    /\ Count(nuclei_produced[n], r) <= 1

\* a rate with a nucleus three times among its reactants is listed for it,
\* and a rate with a nucleus twice among its products is listed for it
C1_Witness ==
    /\ status = "ok"
    /\ \E n \in SeqToSet(unique_nuclei) :
          /\ \E r \in HeldRates :
                Count(Rate[r].reactants, n) = 3 /\ Occurs(r, nuclei_consumed[n])
          /\ \E r \in HeldRates :
                Count(Rate[r].products, n) = 2 /\ Occurs(r, nuclei_produced[n])

\* C2: in a constructed RateCollection unique_nuclei holds exactly the nuclei
\* that are a reactant or a product of a held rate, in strictly ascending
\* Nucleus order (so each once); with no rates it is empty.
C2_UniqueNuclei ==
    status = "ok" =>
        /\ SeqToSet(unique_nuclei) =
              {n \in AllNuclei : \E r \in HeldRates :
                    Occurs(n, Rate[r].reactants) \/ Occurs(n, Rate[r].products)}
        /\ \A i, j \in 1..Len(unique_nuclei) :
              i < j => NucleusLT(unique_nuclei[i], unique_nuclei[j])
        /\ (rates = <<>> => unique_nuclei = <<>>)

\* eight nuclei collected from a library whose first rate does not start
\* with the least nucleus, one of them only ever a product
C2_Witness ==
    /\ status = "ok"
    /\ Len(unique_nuclei) = 8
    /\ library.rates[1] = 7
    /\ \E n \in SeqToSet(unique_nuclei) :
          \A r \in HeldRates : ~Occurs(n, Rate[r].reactants)

NonTabularOf(s) == LET keep(r) == Rate[r].chapter # "t" IN SelectSeq(s, keep)
TabularOf(s)    == LET keep(r) == Rate[r].chapter = "t" IN SelectSeq(s, keep)

\* C3: in a constructed RateCollection rates is the stable partition of the
\* merged library's rate sequence (integer chapters first, tabulated last,
\* each class in its original order), and reaclib_rates and tabular_rates
\* are ascending, disjoint, together cover the positions 0..len(rates)-1,
\* and hold position i in tabular_rates exactly when rates[i] is tabulated.
C3_StablePartition ==
    status = "ok" =>
        /\ Len(rates) = Len(get_rates(library))
        /\ \A i, j \in 1..Len(rates) :
              (i < j /\ Rate[rates[i]].chapter = "t") => Rate[rates[j]].chapter = "t"
        /\ NonTabularOf(rates) = NonTabularOf(get_rates(library))
        /\ TabularOf(rates) = TabularOf(get_rates(library))
        /\ \A i \in 1..Len(rates) :
              Rate[rates[i]].chapter # "t" => Rate[rates[i]].chapter \in IntChapters
        /\ Ascending(reaclib_rates)
        /\ Ascending(tabular_rates)
        /\ SeqToSet(reaclib_rates) \cap SeqToSet(tabular_rates) = {}
        /\ SeqToSet(reaclib_rates) \cup SeqToSet(tabular_rates) = 0..(Len(rates) - 1)
        /\ \A i \in 0..(Len(rates) - 1) :
              i \in SeqToSet(tabular_rates) <=> Rate[rates[i + 1]].chapter = "t"

\* the library held two tabulated rates ahead of integer-chapter rates, so
\* the partition moved them
C3_Witness ==
    /\ status = "ok"
    /\ Len(TabularOf(rates)) = 2
    /\ Len(NonTabularOf(rates)) >= 3
    /\ Rate[library.rates[1]].chapter = "t"
    /\ rates # get_rates(library)

\* the composition object of the last call, and the molar fraction
\* (mass fraction / A) of nucleus n in it
CallX == CompositionPool[call.comp]
MolarOf(n) == RatDiv(CallX[n], <<NucleusA(n), 1>>)

RECURSIVE PowerProduct(_, _)
\* the product over the nuclei n of S of MolarOf(n) to the power of the
\* number of times n occurs in r.reactants
PowerProduct(r, S) ==
    IF S = {} THEN One
    ELSE LET n == CHOOSE n \in S : TRUE
         IN  RatMul(RatPow(MolarOf(n), Count(Rate[r].reactants, n)),
                    PowerProduct(r, S \ {n}))

\* prefactor * rho^dens_exp * eval(T) * product of y_n^{m_n}
ExpectedValue(r) ==
    RatMul(RatMul(RatMul(Rate[r].prefactor, RatPow(call.rho, Rate[r].dens_exp)),
                  RateEval(r, call.T)),
           PowerProduct(r, SeqToSet(Rate[r].reactants)))

HoldsAllReactants ==
    \A r \in HeldRates : SeqToSet(Rate[r].reactants) \subseteq DOMAIN CallX

\* C4: evaluate_rates on a composition that holds every reactant returns a
\* mapping with exactly one entry per held rate; the entry of r is
\* prefactor(r) * rho^dens_exp(r) * eval(r, T) times the molar fraction of
\* every reactant to the power of its multiplicity in r, and is exactly 0
\* when a reactant of r has molar fraction 0.
C4_EvaluateRates ==
    (call.op = "evaluate_rates" /\ HoldsAllReactants) =>
        /\ err = "none"
        /\ DOMAIN rvals = HeldRates
        /\ \A r \in HeldRates :
              /\ rvals[r] = ExpectedValue(r)
              /\ (\E n \in SeqToSet(Rate[r].reactants) : RatIsZero(MolarOf(n)))
                    => rvals[r] = Zero

\* a rate with he4 three times among its reactants evaluated to
\* (1/6) * 10^2 * eval * (1/16)^3, beside a rate of two distinct reactants
C4_Witness ==
    /\ call.op = "evaluate_rates"
    /\ err = "none"
    /\ call.rho = <<10, 1>>
    /\ 1 \in DOMAIN rvals
    /\ 2 \in DOMAIN rvals
    /\ rvals[1] = RatMul(<<100, 6>>, RatMul(RateEval(1, call.T), <<1, 4096>>))
    /\ RatPos(rvals[2])

\* the arguments of the constructor are of the expected kinds and every
\* rate file loads
ArgsValid ==
    /\ \A i \in 1..Len(rate_files.v) : FileLoads(rate_files.v[i])
    /\ \A i \in 1..Len(rates_arg.v) : rates_arg.v[i] # NotARate
    /\ \A i \in 1..Len(libraries0.v) : libraries0.v[i] # NotALibrary

\* the rates the arguments supply
SuppliedRates ==
    UNION {SeqToSet(LibraryOfFile(rate_files.v[i]).rates) : i \in 1..Len(rate_files.v)}
    \cup SeqToSet(rates_arg.v)
    \cup UNION {SeqToSet(libraries0.v[i]) : i \in 1..Len(libraries0.v)}

PairwiseDistinctFnames ==
    \A i, j \in 1..Len(rates) : i # j => Rate[rates[i]].fname # Rate[rates[j]].fname

\* C5: duplicate fnames are detected lazily.  Construction from valid
\* arguments with known chapters succeeds whether or not fnames repeat;
\* evaluate_rates on a collection with a repeated fname returns an entry for
\* every rate; write_network invokes _write_network exactly when the fnames
\* of the held rates are pairwise distinct, and otherwise raises
\* AssertionError without invoking it.
C5_LazyFnameCheck ==
    /\ (status # "new" /\ ArgsValid
          /\ \A r \in SuppliedRates : Rate[r].chapter \in IntChapters \cup {"t"})
        => status = "ok"
    /\ (call.op = "evaluate_rates" /\ ~PairwiseDistinctFnames /\ HoldsAllReactants)
        => (err = "none" /\ DOMAIN rvals = HeldRates)
    /\ call.op = "write_network" =>
          /\ emitted \in {0, 1}
          /\ emitted = 1 <=> PairwiseDistinctFnames
          /\ PairwiseDistinctFnames => err = "none"
          /\ ~PairwiseDistinctFnames => err = "AssertionError"
    /\ call.op # "write_network" => emitted = 0

\* write_network refused a constructed collection with a repeated fname
C5_Witness ==
    /\ status = "ok"
    /\ call.op = "write_network"
    /\ \E i, j \in 1..Len(rates) :
          i # j /\ Rate[rates[i]].fname = Rate[rates[j]].fname
    /\ err = "AssertionError"
    /\ emitted = 0

\* the graph of the last plot call was built completely (evaluate_rates,
\* when called, returned)
GraphBuilt == call.op = "plot" /\ err \notin {"KeyError", "TypeError"}

GNodes == SeqToSet(G.nodes)
EdgeCount(n, p, r) ==
    Cardinality({i \in 1..Len(G.edges) :
        G.edges[i].u = n /\ G.edges[i].v = p /\ G.edges[i].rate = r})

\* C6: in the graph built by plot, a nucleus of unique_nuclei is a node iff
\* its name is not p, n or he4 or it occurs more than once among the
\* reactants of a held rate; and for every node n, every rate r of
\* nuclei_consumed[n] and every entry p of r.products that is a node there
\* is one edge n -> p of its own (an entry listed m times in r.products
\* gives m edges), and there are no other edges: edges are never merged.
C6_Topology ==
    GraphBuilt =>
        /\ \A i, j \in 1..Len(G.nodes) : i # j => G.nodes[i] # G.nodes[j]
        /\ GNodes = {n \in SeqToSet(unique_nuclei) :
                        \/ n \notin {"p", "n", "he4"}
                        \/ \E r \in HeldRates : Count(Rate[r].reactants, n) > 1}
        /\ \A n \in AllNuclei, p \in AllNuclei, r \in RateIds :
              EdgeCount(n, p, r) =
                 IF /\ n \in GNodes
                    /\ p \in GNodes
                    /\ Occurs(r, nuclei_consumed[n])
                 THEN Count(Rate[r].products, p)
                 ELSE 0
        /\ \A i \in 1..Len(G.edges) :
              /\ G.edges[i].u \in GNodes
              /\ G.edges[i].v \in GNodes
              /\ G.edges[i].rate \in HeldRates

\* two rates convert c12 to n13 and the graph has two c12 -> n13 edges; he4
\* is a node (triple alpha) while p, a reactant, is not
C6_Witness ==
    /\ GraphBuilt
    /\ {2, 3} \subseteq HeldRates
    /\ EdgeCount("c12", "n13", 2) = 1
    /\ EdgeCount("c12", "n13", 3) = 1
    /\ "he4" \in GNodes
    /\ "p" \in SeqToSet(unique_nuclei) \ GNodes

\* the value evaluate_rates gives rate r for the arguments of the last call
EvaluatedValue(r) ==
    EvaluateRates(rates, call.rho, call.T, CallX).rvals[r]

\* C7: when plot is given no density, temperature and composition every edge
\* has weight 0.5; when it is given all three, the weight of an edge added
\* for rate r is log10 of r's evaluated value, except that a value of
\* exactly 0 gives the weight -308, and plot does not raise for it.
C7_EdgeWeights ==
    /\ (call.op = "plot" /\ call.supplied = {}) =>
          \A i \in 1..Len(G.edges) : G.edges[i].weight = ConstWeight(<<1, 2>>)
    /\ (GraphBuilt /\ call.supplied = {"rho", "T", "comp"}) =>
          \A i \in 1..Len(G.edges) :
             LET val == EvaluatedValue(G.edges[i].rate)
             IN  IF RatIsZero(val)
                 THEN /\ G.edges[i].weight = ConstWeight(<<-308, 1>>)
                      /\ err = "none"
                 ELSE G.edges[i].weight = [kind |-> "log10", val |-> val]

\* a plot with all three given has an edge of a rate that evaluates to 0
\* beside an edge of a rate that does not
C7_Witness ==
    /\ GraphBuilt
    /\ call.supplied = {"rho", "T", "comp"}
    /\ \E i, j \in 1..Len(G.edges) :
          /\ RatIsZero(EvaluatedValue(G.edges[i].rate))
          /\ G.edges[i].weight.kind = "const"
          /\ RatPos(EvaluatedValue(G.edges[j].rate))
          /\ G.edges[j].weight.kind = "log10"

\* C8: the key set of a Composition is the set of nuclei it was constructed
\* with, after any sequence of set_all, set_nuc, set_solar_like, normalize
\* and get_molar calls; a set_nuc call whose name matches no nucleus leaves
\* every mass fraction as it was, and so does a get_molar call.
C8_KeySetFixed ==
    /\ [](DOMAIN X = nuclei0)
    /\ [][(comp_call'.op = "set_nuc" /\ comp_call'.name \notin nuclei0) => X' = X]_vars
    /\ [][comp_call'.op = "get_molar" => X' = X]_vars

\* after two other calls, set_nuc was called with a name that matches none
\* of the nuclei, which include the nucleus named in an earlier set_nuc
C8_Witness ==
    /\ ncalls = 3
    /\ comp_call.op = "set_nuc"
    /\ comp_call.name = "n14"
    /\ comp_call.name \notin nuclei0
    /\ DOMAIN X = nuclei0
    /\ \E k \in DOMAIN X : X[k] = <<1, 2>>

\* C9: for a Composition of at least 3 nuclei that include p and he4,
\* set_solar_like(Z) assigns 0.70 to p, 0.3 - Z to he4 and Z / (number of
\* nuclei - 2) to every other nucleus, then divides every value by their
\* sum, after which the mass fractions sum to 1; with 4 nuclei and Z = 0.02
\* the assigned values are 0.70, 0.28, 0.01 and 0.01.
C9_SolarLike ==
    (/\ comp_call.op = "set_solar_like"
     /\ Cardinality(nuclei0) >= 3
     /\ {"p", "he4"} \subseteq nuclei0) =>
        LET Z == comp_call.x
            num == Cardinality(nuclei0)
        IN  /\ comp_err = "none"
            /\ DOMAIN X_assigned = nuclei0
            /\ X_assigned["p"] = <<7, 10>>
            /\ X_assigned["he4"] = RatSub(<<3, 10>>, Z)
            /\ \A k \in nuclei0 \ {"p", "he4"} :
                  X_assigned[k] = RatDiv(Z, <<num - 2, 1>>)
            /\ \A k \in nuclei0 :
                  X[k] = RatDiv(X_assigned[k], SumOver(X_assigned, nuclei0))
            /\ SumOver(X, nuclei0) = One
            /\ (num = 4 /\ Z = <<2, 100>>) =>
                  /\ X_assigned["he4"] = <<28, 100>>
                  /\ \A k \in nuclei0 \ {"p", "he4"} : X_assigned[k] = <<1, 100>>

\* set_solar_like(0.02) was called on a Composition of p, he4 and two
\* other nuclei whose mass fractions had been changed before
C9_Witness ==
    /\ comp_call.op = "set_solar_like"
    /\ comp_call.x = <<1, 50>>
    /\ comp_err = "none"
    /\ nuclei0 = {"p", "he4", "c12", "o16"}
    /\ ncalls >= 2
    /\ X_assigned["c12"] = <<1, 100>>
    /\ X["he4"] = <<7, 25>>

\* a library had been obtained from rate_files or rates when the libraries
\* argument was reached
ObtainedBefore == Truthy(rate_files) \/ Truthy(rates_arg)

IsPrefix(a, b) == Len(a) <= Len(b) /\ SubSeq(b, 1, Len(a)) = a

\* C10: the constructor changes the caller's libraries list in exactly one
\* case: a non-empty list passed when no library was obtained from
\* rate_files or rates loses its first element, which becomes the base of
\* the merge; otherwise the caller's libraries object is as it was.  After
\* a successful construction the rates of every supplied library, the
\* removed one included, are held.
C10_CallerLibraries ==
    /\ libraries # libraries0 =>
          /\ status # "new"
          /\ libraries0.kind = "list"
          /\ libraries0.v # <<>>
          /\ ~ObtainedBefore
          /\ libraries = [kind |-> "list", v |-> Tail(libraries0.v)]
    /\ status = "ok" =>
          /\ (libraries0.kind = "list" /\ libraries0.v # <<>> /\ ~ObtainedBefore)
                => /\ libraries # libraries0
                   /\ Len(libraries.v) = Len(libraries0.v) - 1
                   /\ IsPrefix(Head(libraries0.v), get_rates(library))
          /\ \A i \in 1..Len(libraries0.v) :
                SeqToSet(libraries0.v[i]) \subseteq HeldRates

\* a list of two libraries lost its first element, whose rates are held
C10_Witness ==
    /\ status = "ok"
    /\ libraries0.kind = "list"
    /\ Len(libraries0.v) = 2
    /\ libraries0.v[1] # libraries0.v[2]
    /\ libraries.v = <<libraries0.v[2]>>
    /\ SeqToSet(libraries0.v[1]) \subseteq HeldRates

=============================================================================
